---- MODULE Spec2Model ----
(***************************************************************************)
(* Value-decomposition Q-learning policy (IQL / VDN / QMIX) of             *)
(* marllib/marl/algos/core/VD/iql_vdn_qmix.py: JointQLoss.forward and the  *)
(* JointQPolicy operations (construction, compute_actions, learn_on_batch, *)
(* get/set_weights, get/set_state, update_target, set_epsilon).            *)
(*                                                                         *)
(* Tensors are functions over 0-based index ranges, as in the source:      *)
(* x[b][t][a] is the entry of row b, time t, agent a.  Floats are decimal  *)
(* fixed point numbers with two fractional digits (the integer v stands    *)
(* for v / Scale); -inf is the integer NegInf, below every finite value.   *)
(***************************************************************************)
EXTENDS Integers, Sequences, FiniteSets, TLC

VARIABLES
    config,          \* the config dict the policy was constructed with
    phase,           \* "ready": constructed; "failed": __init__ raised
    model,           \* online estimator's state_dict
    target_model,    \* target estimator's state_dict
    mixer,           \* self.mixer: [kind, sd]; kind "none" is None
    target_mixer,    \* self.target_mixer
    cur_epsilon,     \* self.cur_epsilon
    last_timestep,   \* self.exploration.last_timestep
    grad,            \* the .grad buffers of self.params: the backward passes summed in them
    samples,         \* the sample batch collected by the rollout (a list of timesteps)
    last             \* the last call on the policy or the loss: op, raised, outputs

vars == <<config, phase, model, target_model, mixer, target_mixer,
          cur_epsilon, last_timestep, grad, samples, last>>

policyVars == <<config, phase, model, target_model, mixer, target_mixer,
                cur_epsilon, last_timestep>>

----------------------------------------------------------------------------
(* Bounds of the model *)

MaxSteps == 3        \* timesteps in one sample batch
MaxAgents == 2       \* n_agents ranges over 1..MaxAgents
MaxMaskSteps == 8    \* timesteps in a batch when only the mask is built

(* Program constants *)

n_actions == 2
NegInf == -1000000000
DefaultMaxSeqLen == 999999

Scale == 10 * 10                      \* fixed point: two decimal digits
Fx(i) == i * Scale                    \* the float of an integer
Gamma == (9 * Scale) \div 10          \* config["gamma"] = 0.9
InitialEpsilon == Scale               \* self.cur_epsilon = 1.0

Actions == 0 .. (n_actions - 1)
Agents(n) == 0 .. (n - 1)

----------------------------------------------------------------------------
(* Arithmetic *)

Abs(x) == IF x < 0 THEN -x ELSE x
Mul(x, y) == (x * y) \div Scale
Div(x, y) == (x * Scale) \div y

RECURSIVE SumTo(_, _)
\* f[0] + ... + f[n-1]
SumTo(f, n) == IF n = 0 THEN 0 ELSE SumTo(f, n - 1) + f[n - 1]

RECURSIVE Eager(_, _)
\* the function f on 0 .. n-1 as stored data: f itself, every entry computed once
Eager(f, n) == IF n = 1 THEN (0 :> f[0]) ELSE Eager(f, n - 1) @@ ((n - 1) :> f[n - 1])
Eager2(x, d1, d2) == Eager([i \in 0 .. (d1 - 1) |-> Eager(x[i], d2)], d1)
Eager3(x, d1, d2, d3) == Eager([i \in 0 .. (d1 - 1) |-> Eager2(x[i], d2, d3)], d1)
Eager4(x, d1, d2, d3, d4) ==
    Eager([i \in 0 .. (d1 - 1) |-> Eager3(x[i], d2, d3, d4)], d1)
\* the tensor x of shape dims as stored data
Stored(x, dims) ==
    CASE Len(dims) = 2 -> Eager2(x, dims[1], dims[2])
      [] Len(dims) = 3 -> Eager3(x, dims[1], dims[2], dims[3])
      [] Len(dims) = 4 -> Eager4(x, dims[1], dims[2], dims[3], dims[4])

RECURSIVE ISqrtFrom(_, _)
ISqrtFrom(x, r) == IF (r + 1) * (r + 1) > x THEN r ELSE ISqrtFrom(x, r + 1)
\* floor of the square root of x >= 0
ISqrt(x) == ISqrtFrom(x, 0)

RECURSIVE ArgMaxUpTo(_, _)
\* the index of the first maximal value among q[0 .. k]
ArgMaxUpTo(q, k) ==
    IF k = 0 THEN 0
    ELSE LET j == ArgMaxUpTo(q, k - 1) IN IF q[k] > q[j] THEN k ELSE j
\* tensor.argmax(dim): the index of the first maximal value
ArgMax(q) == ArgMaxUpTo(q, n_actions - 1)
\* tensor.max(dim)[0] over the action dimension
MaxOver(q) == q[ArgMax(q)]

----------------------------------------------------------------------------
(* The estimator (JointQRNN / JointQMLP behind _mac and _unroll_mac) and   *)
(* the mixers (QMixer, VDNMixer).  An estimator's state_dict maps each     *)
(* action to the weight of its output unit; each agent observes one number *)
(* per timestep (obs_size = 1).                                            *)

WVals == {0, 1}
ParamSet == [Actions -> WVals]         \* the estimator state_dicts
MixVals == {-1, 1}                     \* the QMixer state_dicts
ObsVals == {0, 1}

\* model.get_initial_state()
InitialState == 0
\* the recurrent cell: the next hidden state from the hidden state and the observation
Cell(h, o) == h + o
\* the Q-value of action k from the hidden state
QHead(sd, h, k) == Fx(sd[k] * (1 + h))

RECURSIVE HiddenAt(_, _, _)
\* the hidden state of agent a after the observations whole_b[0..t] of one row
HiddenAt(whole_b, a, t) ==
    IF t < 0 THEN InitialState
    ELSE Cell(HiddenAt(whole_b, a, t - 1), whole_b[t][a])

\* _unroll_mac(model, obs_tensor): Q-values [B, T, n_agents, n_actions],
\* unrolled from the initial state along the time axis
UnrollMac(sd, obs_tensor, B, T, n) ==
    Stored([b \in 0 .. (B - 1) |-> [t \in 0 .. (T - 1) |-> [a \in Agents(n) |->
                LET h == HiddenAt(obs_tensor[b], a, t)
                IN  [k \in Actions |-> QHead(sd, h, k)]]]],
           <<B, T, n, n_actions>>)

\* VDNMixer: the sum of the agents' Q-values
VDNMixer(qs, n) == SumTo(qs, n)
\* QMixer: a weighted sum whose weight, from the hyper-network on the state,
\* is an absolute value (monotone in each agent's Q-value)
QMixer(sd, qs, s, d, n) == Abs(sd + SumTo(s, d)) * SumTo(qs, n)

NoMixer == [kind |-> "none", sd |-> 0]
IsNone(m) == m.kind = "none"
\* mixer(agent_qs, states): [B, T, n_agents] -> [B, T, 1]
ApplyMixer(m, qs, s, d, n) ==
    IF m.kind = "vdn" THEN VDNMixer(qs, n) ELSE QMixer(m.sd, qs, s, d, n)

----------------------------------------------------------------------------
(* JointQLoss.forward.  L is the loss object (model, target_model, mixer,   *)
(* target_mixer, n_agents, double_q, gamma); in is the argument record      *)
(* (rewards, actions, terminated, mask, obs, next_obs, action_mask,         *)
(* next_action_mask, state, next_state).  An optional tensor is a record    *)
(* [given, dim, v]: given = FALSE is None.                                  *)

NoTensor == [given |-> FALSE, dim |-> 0, v |-> <<>>]
Tensor(v, d) == [given |-> TRUE, dim |-> d, v |-> v]

BatchB(in) == Cardinality(DOMAIN in.rewards)
BatchT(in) == Cardinality(DOMAIN in.rewards[0])
Rows(in) == 0 .. (BatchB(in) - 1)
Times(in) == 0 .. (BatchT(in) - 1)

\* a one-sided check: only a missing next_state is a mismatch
StateMismatchOneSided(in) == in.state.given /\ ~in.next_state.given
\* line 196: exactly one of state and next_state is given
StateMismatch(in) == in.state.given # in.next_state.given

\* lines 193-195: the state handed to the mixer (the observations by default)
MixState(L, in) ==
    IF ~in.state.given /\ ~in.next_state.given
    THEN Tensor(in.obs, L.n_agents) ELSE in.state
MixNextState(L, in) ==
    IF ~in.state.given /\ ~in.next_state.given
    THEN Tensor(in.next_obs, L.n_agents) ELSE in.next_state

\* line 203: torch.cat((obs[:, 0:1], next_obs), axis=1), of T + 1 timesteps
WholeObs(in) ==
    Stored([b \in Rows(in) |-> [t \in 0 .. BatchT(in) |->
                IF t = 0 THEN in.obs[b][0] ELSE in.next_obs[b][t - 1]]],
           <<BatchB(in), BatchT(in) + 1>>)

\* line 206
MacOut(L, in) ==
    UnrollMac(L.model, WholeObs(in), BatchB(in), BatchT(in) + 1, L.n_agents)

\* The shape [B, T, n_agents] of the batch
Shape(L, in) == <<BatchB(in), BatchT(in), L.n_agents>>

\* lines 209-210: the Q-values of the actions taken, from mac_out[:, :-1]
ChosenActionQvals(L, in, mac_out) ==
    Stored([b \in Rows(in) |-> [t \in Times(in) |-> [a \in Agents(L.n_agents) |->
                mac_out[b][t][a][in.actions[b][t][a]]]]],
           Shape(L, in))

\* lines 214-217: the target estimator's Q-values of the next_obs part
TargetMacOutRaw(L, in) ==
    LET full == UnrollMac(L.target_model, WholeObs(in), BatchB(in),
                          BatchT(in) + 1, L.n_agents)
    IN  Stored([b \in Rows(in) |-> [t \in Times(in) |-> full[b][t + 1]]],
               <<BatchB(in), BatchT(in)>>)

\* line 220 without its mask == 1 conjunct
IgnoreActionTp1Padded(in, b, t, a, k) == in.next_action_mask[b][t][a][k] = 0
\* line 220
IgnoreActionTp1(in, b, t, a, k) ==
    in.next_action_mask[b][t][a][k] = 0 /\ in.mask[b][t][a] = 1

\* line 221: target_mac_out[ignore_action_tp1] = -np.inf
TargetMacOut(L, in) ==
    LET raw == TargetMacOutRaw(L, in)
    IN  Stored([b \in Rows(in) |-> [t \in Times(in) |-> [a \in Agents(L.n_agents) |->
                [k \in Actions |->
                    IF IgnoreActionTp1(in, b, t, a, k) THEN NegInf
                    ELSE raw[b][t][a][k]]]]],
               Shape(L, in) \o <<n_actions>>)

\* lines 227-231 without line 231: the online Q-values of t+1 left unmasked
MacOutTp1Unmasked(L, in, mac_out) ==
    Stored([b \in Rows(in) |-> [t \in Times(in) |-> mac_out[b][t + 1]]],
           <<BatchB(in), BatchT(in)>>)
\* lines 227-231: the detached online Q-values of t+1, unallowed actions masked
MacOutTp1(L, in, mac_out) ==
    Stored([b \in Rows(in) |-> [t \in Times(in) |-> [a \in Agents(L.n_agents) |->
                [k \in Actions |->
                    IF IgnoreActionTp1(in, b, t, a, k) THEN NegInf
                    ELSE mac_out[b][t + 1][a][k]]]]],
           Shape(L, in) \o <<n_actions>>)

\* line 234: mac_out_tp1.argmax(dim=3)
CurMaxActions(L, in, mac_out_tp1) ==
    Stored([b \in Rows(in) |-> [t \in Times(in) |-> [a \in Agents(L.n_agents) |->
                ArgMax(mac_out_tp1[b][t][a])]]],
           Shape(L, in))

\* lines 224-241: the next action whose target Q-value is bootstrapped from:
\* with double_q the online estimator's best, else the target estimator's
BootstrapActions(L, in, mac_out, target_mac_out) ==
    IF L.double_q
    THEN CurMaxActions(L, in, MacOutTp1(L, in, mac_out))
    ELSE Stored([b \in Rows(in) |-> [t \in Times(in) |-> [a \in Agents(L.n_agents) |->
                    ArgMax(target_mac_out[b][t][a])]]],
                Shape(L, in))

\* lines 237-241: torch.gather(target_mac_out, 3, cur_max_actions), or
\* target_mac_out.max(dim=3)[0]
TargetMaxQvals(L, in, target_mac_out, idx) ==
    Stored([b \in Rows(in) |-> [t \in Times(in) |-> [a \in Agents(L.n_agents) |->
                target_mac_out[b][t][a][idx[b][t][a]]]]],
           Shape(L, in))

\* line 243: the assertion's condition, target_max_qvals.min() != -inf
AssertNoMaskedTarget(L, in, target_max_qvals) ==
    \A b \in Rows(in), t \in Times(in), a \in Agents(L.n_agents) :
        target_max_qvals[b][t][a] # NegInf

\* The size of the agent dimension after line 250: 1 if mixed
MixedDim(L) == IF IsNone(L.mixer) THEN L.n_agents ELSE 1
\* Broadcasting an index of the agent dimension into a dimension of size d
Bc(a, d) == IF d = 1 THEN 0 ELSE a

\* lines 248-249
MixedChosen(L, in, chosen_action_qvals) ==
    LET s == MixState(L, in)
    IN  Stored([b \in Rows(in) |-> [t \in Times(in) |->
                    IF IsNone(L.mixer) THEN chosen_action_qvals[b][t]
                    ELSE [i \in 0 .. 0 |->
                            ApplyMixer(L.mixer, chosen_action_qvals[b][t],
                                       s.v[b][t], s.dim, L.n_agents)]]],
               <<BatchB(in), BatchT(in), MixedDim(L)>>)

\* lines 248, 250
MixedTarget(L, in, target_max_qvals) ==
    LET s == MixNextState(L, in)
    IN  Stored([b \in Rows(in) |-> [t \in Times(in) |->
                    IF IsNone(L.mixer) THEN target_max_qvals[b][t]
                    ELSE [i \in 0 .. 0 |->
                            ApplyMixer(L.target_mixer, target_max_qvals[b][t],
                                       s.v[b][t], s.dim, L.n_agents)]]],
               <<BatchB(in), BatchT(in), MixedDim(L)>>)

\* line 253 without its (1 - terminated) factor
TdTargetNoTermination(gamma, reward, terminated, target_value) ==
    reward + Mul(gamma, target_value)
\* line 253, one entry: rewards + gamma * (1 - terminated) * target_max_qvals
TdTarget(gamma, reward, terminated, target_value) ==
    reward + Mul(gamma * (1 - terminated), target_value)

\* line 253
Targets(L, in, target_max_qvals) ==
    Stored([b \in Rows(in) |-> [t \in Times(in) |-> [a \in Agents(L.n_agents) |->
                TdTarget(L.gamma, in.rewards[b][t][a], in.terminated[b][t][a],
                         target_max_qvals[b][t][Bc(a, MixedDim(L))])]]],
           Shape(L, in))

\* line 256: chosen_action_qvals - targets.detach()
TdError(L, in, chosen_action_qvals, targets) ==
    Stored([b \in Rows(in) |-> [t \in Times(in) |-> [a \in Agents(L.n_agents) |->
                chosen_action_qvals[b][t][Bc(a, MixedDim(L))] - targets[b][t][a]]]],
           Shape(L, in))

\* lines 258-261: td_error * mask
MaskedTdError(L, in, td_error) ==
    Stored([b \in Rows(in) |-> [t \in Times(in) |-> [a \in Agents(L.n_agents) |->
                td_error[b][t][a] * in.mask[b][t][a]]]],
           Shape(L, in))

\* The sum of all entries of a tensor [B, T, n]
SumAll(x, B, T, n) ==
    SumTo([b \in 0 .. (B - 1) |->
             SumTo([t \in 0 .. (T - 1) |-> SumTo(x[b][t], n)], T)], B)

\* line 264: (masked_td_error ** 2).sum() / mask.sum()
Loss(L, in, masked_td_error) ==
    LET sq == Stored([b \in Rows(in) |-> [t \in Times(in) |->
                        [a \in Agents(L.n_agents) |->
                            Mul(masked_td_error[b][t][a], masked_td_error[b][t][a])]]],
                     Shape(L, in))
    IN  SumAll(sq, BatchB(in), BatchT(in), L.n_agents)
            \div SumAll(in.mask, BatchB(in), BatchT(in), L.n_agents)

NotComputed == <<>>
\* forward raises exc; unrolled: the estimators were run before
Raise(exc, unrolled) ==
    [raised |-> exc, unrolled |-> unrolled, nan |-> FALSE, loss |-> 0,
     mask |-> NotComputed, masked_td_error |-> NotComputed,
     chosen_action_qvals |-> NotComputed, targets |-> NotComputed]

\* JointQLoss.forward: what it raises, and what it returns
Forward(L, in) ==
    IF StateMismatch(in) THEN Raise("ValueError", FALSE)
    ELSE LET mac_out == MacOut(L, in)
             chosen_action_qvals == ChosenActionQvals(L, in, mac_out)
             target_mac_out == TargetMacOut(L, in)
             cur_max_actions == BootstrapActions(L, in, mac_out, target_mac_out)
             target_max_qvals ==
                 TargetMaxQvals(L, in, target_mac_out, cur_max_actions)
         IN  IF ~AssertNoMaskedTarget(L, in, target_max_qvals)
             THEN Raise("AssertionError", TRUE)
             ELSE LET mixed == MixedChosen(L, in, chosen_action_qvals)
                      targets == Targets(L, in, MixedTarget(L, in, target_max_qvals))
                      td_error == TdError(L, in, mixed, targets)
                      masked_td_error == MaskedTdError(L, in, td_error)
                  IN  [raised |-> "none", unrolled |-> TRUE, nan |-> in.nan,
                       loss |-> Loss(L, in, masked_td_error), mask |-> in.mask,
                       masked_td_error |-> masked_td_error,
                       chosen_action_qvals |-> mixed, targets |-> targets]

----------------------------------------------------------------------------
(* The sample batch and its padding (learn_on_batch, lines 438-503).  A     *)
(* sample batch is a list of timesteps; a timestep holds the columns        *)
(* learn_on_batch reads: the run's id (EPS_ID; UNROLL_ID and AGENT_INDEX    *)
(* are those of the one agent group), the group rewards of INFOS, ACTIONS,  *)
(* DONES, and obs, action_mask and state of CUR_OBS and of NEXT_OBS.        *)

Step(e, r, ac, d, o, no, am, nam, st, nst) ==
    [eps_id |-> e, rew |-> r, act |-> ac, done |-> d, obs |-> o, next_obs |-> no,
     action_mask |-> am, next_action_mask |-> nam, state |-> st, next_state |-> nst]

\* np.zeros: the padding of every feature column
ZeroStep(n) ==
    Step(0, [a \in Agents(n) |-> 0], [a \in Agents(n) |-> 0], 0,
         [a \in Agents(n) |-> 0], [a \in Agents(n) |-> 0],
         [a \in Agents(n) |-> [k \in Actions |-> 0]],
         [a \in Agents(n) |-> [k \in Actions |-> 0]], 0, 0)

Ones(n) == [a \in Agents(n) |-> [k \in Actions |-> 1]]

\* _unpack_observation, lines 650-662: without an action_mask subspace the
\* mask is all ones
UnpackMask(cfg, am) == IF cfg.has_action_mask THEN am ELSE Ones(cfg.n_agents)

RECURSIVE SeqLensFrom(_, _, _, _, _)
\* chop_into_sequences' loop over the unique ids: i is the next timestep,
\* prev the id before it (0 at the start: None), seq_len the running length
SeqLensFrom(uids, max_seq_len, i, seq_len, acc) ==
    IF i > Len(uids)
    THEN IF seq_len > 0 THEN Append(acc, seq_len) ELSE acc
    ELSE IF (i > 1 /\ uids[i] # uids[i - 1]) \/ seq_len >= max_seq_len
         THEN SeqLensFrom(uids, max_seq_len, i + 1, 1, Append(acc, seq_len))
         ELSE SeqLensFrom(uids, max_seq_len, i + 1, seq_len + 1, acc)

\* chop_into_sequences, line 453: the lengths of the runs of one id, a run
\* longer than max_seq_len split
SeqLens(smp, max_seq_len) ==
    SeqLensFrom([i \in 1 .. Len(smp) |-> smp[i].eps_id], max_seq_len, 1, 0, <<>>)

RECURSIVE SumSeq(_)
SumSeq(q) == IF q = <<>> THEN 0 ELSE Head(q) + SumSeq(Tail(q))

RECURSIVE MaxSeq(_)
\* max(seq_lens), line 469
MaxSeq(q) ==
    IF Len(q) = 1 THEN q[1]
    ELSE LET m == MaxSeq(Tail(q)) IN IF q[1] >= m THEN q[1] ELSE m

\* chop_into_sequences with dynamic_max: every column padded to
\* [B * T, ...], run b (0-based) at seq_base = b * T, the rest filled with fill
\* (the source fills with zeros)
PadColumns(smp, seq_lens, T, fill) ==
    [j \in 0 .. (Len(seq_lens) * T - 1) |->
        LET b == j \div T
            off == j % T
        IN  IF off < seq_lens[b + 1]
            THEN smp[SumSeq(SubSeq(seq_lens, 1, b)) + off + 1]
            ELSE fill]

\* to_batches, lines 471-474: np.reshape(arr, [B, T] + ...)
ToBatches(arr, B, T) ==
    [b \in 0 .. (B - 1) |-> [t \in 0 .. (T - 1) |-> arr[b * T + t]]]

\* np.tile(np.arange(T), B), line 499
TileArange(T, B) == [j \in 0 .. (B * T - 1) |-> j % T]

\* lines 498-503 with <= in place of <
ValidityMaskInclusive(seq_lens, T, n) ==
    [b \in 0 .. (Len(seq_lens) - 1) |-> [t \in 0 .. (T - 1) |-> [a \in Agents(n) |->
        IF t <= seq_lens[b + 1] THEN 1 ELSE 0]]]
\* lines 498-503: 1 where the time index is < the unpadded sequence length
ValidityMask(seq_lens, T, n) ==
    LET B == Len(seq_lens)
        idx == ToBatches(TileArange(T, B), B, T)
    IN  Stored([b \in 0 .. (B - 1) |-> [t \in 0 .. (T - 1) |-> [a \in Agents(n) |->
                    IF idx[b][t] < seq_lens[b + 1] THEN 1 ELSE 0]]],
               <<B, T, n>>)

\* rewards.mean() over all B * T * n entries
RewardMean(x, B, T, n) == SumAll(x, B, T, n) \div (B * T * n)
\* rewards.std(): the unbiased estimate over all B * T * n entries (N >= 2)
RewardStd(x, B, T, n) ==
    LET mu == RewardMean(x, B, T, n)
        sq == [b \in 0 .. (B - 1) |-> [t \in 0 .. (T - 1) |-> [a \in Agents(n) |->
                  (x[b][t][a] - mu) * (x[b][t][a] - mu)]]]
    IN  ISqrt(SumAll(sq, B, T, n) \div (B * T * n - 1))
\* (r - mean) / (std + 1e-5): a deviation of 0 gives 0 also over std = 0
Standardized(r, mu, sd) == IF r = mu THEN 0 ELSE Div(r - mu, sd)

\* rewards.std() of a single element is NaN, and so are the standardized
\* rewards, the targets and the loss: the tensors then hold the
\* unstandardized values and the argument record is marked nan
StdIsNaN(cfg, B, T) == cfg.reward_standardize /\ B * T * cfg.n_agents = 1

\* lines 478-480
Rewards(cfg, steps, B, T) ==
    LET n == cfg.n_agents
        raw == Stored([b \in 0 .. (B - 1) |-> [t \in 0 .. (T - 1) |->
                          [a \in Agents(n) |-> Fx(steps[b][t].rew[a]) \div n]]],
                      <<B, T, n>>)
        mu == RewardMean(raw, B, T, n)
        sd == RewardStd(raw, B, T, n)
    IN  IF cfg.reward_standardize /\ ~StdIsNaN(cfg, B, T)
        THEN Stored([b \in 0 .. (B - 1) |-> [t \in 0 .. (T - 1) |->
                        [a \in Agents(n) |-> Standardized(raw[b][t][a], mu, sd)]]],
                    <<B, T, n>>)
        ELSE raw

\* lines 438-503: the arguments of self.loss, from the sample batch smp, the
\* columns padded with fill
LossArgs(cfg, smp, fill) ==
    LET n == cfg.n_agents
        unpacked == [i \in 1 .. Len(smp) |->
                        [smp[i] EXCEPT
                            !.action_mask = UnpackMask(cfg, @),
                            !.next_action_mask = UnpackMask(cfg, @)]]
        seq_lens == SeqLens(smp, cfg.max_seq_len)
        B == Len(seq_lens)
        T == MaxSeq(seq_lens)
        steps == Stored(ToBatches(PadColumns(unpacked, seq_lens, T, fill), B, T),
                        <<B, T>>)
        Col(f(_)) == Stored([b \in 0 .. (B - 1) |-> [t \in 0 .. (T - 1) |->
                                f(steps[b][t])]], <<B, T>>)
        rew(s) == s.rew
        act(s) == s.act
        dones(s) == [a \in Agents(n) |-> s.done]
        obs(s) == s.obs
        nobs(s) == s.next_obs
        am(s) == s.action_mask
        nam(s) == s.next_action_mask
        st(s) == [i \in 0 .. 0 |-> s.state]
        nst(s) == [i \in 0 .. 0 |-> s.next_state]
    IN  [rewards |-> Rewards(cfg, steps, B, T),
         actions |-> Col(act),
         terminated |-> Col(dones),
         mask |-> ValidityMask(seq_lens, T, n),
         obs |-> Col(obs),
         next_obs |-> Col(nobs),
         action_mask |-> Col(am),
         next_action_mask |-> Col(nam),
         env_global_state |-> Col(st),
         next_env_global_state |-> Col(nst),
         state |-> IF cfg.has_env_global_state THEN Tensor(Col(st), 1) ELSE NoTensor,
         next_state |-> IF cfg.has_env_global_state THEN Tensor(Col(nst), 1) ELSE NoTensor,
         nan |-> StdIsNaN(cfg, B, T),
         seq_lens |-> seq_lens]

----------------------------------------------------------------------------
(* JointQPolicy.  A policy object P is the record of its fields.           *)

Self == [config |-> config, phase |-> phase, model |-> model,
         target_model |-> target_model, mixer |-> mixer,
         target_mixer |-> target_mixer, cur_epsilon |-> cur_epsilon,
         last_timestep |-> last_timestep]

\* a Module's state_dict(): its parameters by name
StateDict(sd) == [k \in DOMAIN sd |-> sd[k]]
\* module.load_state_dict(sd): every parameter of the module is overwritten
\* by the entry of its name
LoadStateDict(old, sd) == [k \in DOMAIN old |-> sd[k]]
\* load_state_dict is strict: the names must be the module's
KeysMatch(old, sd) == DOMAIN old = DOMAIN sd

\* a QMixer's state_dict (one hyper-network weight); a VDNMixer has no parameter
QMixSd(w) == [w |-> w]
EmptySd == [k \in {} |-> 0]
Mixer(kind, w) == [kind |-> kind, sd |-> IF kind = "qmix" THEN w ELSE 0]

\* lines 596-597 alone: the estimator copied, the mixer not
UpdateTargetModelOnly(P) ==
    [P EXCEPT !.target_model = LoadStateDict(@, StateDict(P.model))]
\* update_target, lines 596-600: a full copy of the online parameters
UpdateTarget(P) ==
    [P EXCEPT
        !.target_model = LoadStateDict(@, StateDict(P.model)),
        !.target_mixer = IF ~IsNone(P.mixer)
                         THEN [@ EXCEPT !.sd = P.mixer.sd] ELSE @]

\* lines 602-603 followed by a target synchronization
SetEpsilonAndSync(P, epsilon) == UpdateTarget([P EXCEPT !.cur_epsilon = epsilon])
\* set_epsilon, lines 602-603
SetEpsilonOp(P, epsilon) == [P EXCEPT !.cur_epsilon = epsilon]

\* lines 340-348: the mixer kinds __init__ handles
SupportedMixers == {"none", "qmix", "vdn"}
\* lines 361-374: the optimizers __init__ handles
SupportedOptimizers == {"rmsprop", "adam"}

\* __init__, lines 271-374: m0 and t0 are the initial parameters of the two
\* estimators, x0 and tx0 those of the two mixers.  With an unsupported mixer
\* kind no branch of lines 340-348 sets self.mixer, and update_target (line
\* 351) raises AttributeError reading it, after loading the target
\* estimator; an unsupported optimizer raises ValueError at line 374.
PolicyInit(cfg, m0, t0, x0, tx0) ==
    LET built == [config |-> cfg, phase |-> "ready", model |-> m0,
                  target_model |-> t0,
                  mixer |-> IF cfg.mixer \in SupportedMixers
                            THEN Mixer(cfg.mixer, x0) ELSE [kind |-> "unset", sd |-> 0],
                  target_mixer |-> IF cfg.mixer \in SupportedMixers
                                   THEN Mixer(cfg.mixer, tx0) ELSE [kind |-> "unset", sd |-> 0],
                  cur_epsilon |-> InitialEpsilon, last_timestep |-> 0]
    IN  IF cfg.mixer \notin SupportedMixers
        THEN [built EXCEPT !.phase = "failed",
                           !.target_model = LoadStateDict(@, StateDict(m0))]
        ELSE IF cfg.optimizer \notin SupportedOptimizers
        THEN [UpdateTarget(built) EXCEPT !.phase = "failed"]
        ELSE UpdateTarget(built)

\* what __init__ raises
InitRaises(cfg) ==
    IF cfg.mixer \notin SupportedMixers THEN "AttributeError"
    ELSE IF cfg.optimizer \notin SupportedOptimizers THEN "ValueError"
    ELSE "none"

\* lines 354-356 with the target estimator's parameters added
OptimiserParamsWithTarget(P) ==
    {"model", "target_model"} \cup (IF ~IsNone(P.mixer) THEN {"mixer"} ELSE {})
\* lines 354-356: self.params, the parameters the optimizer steps
OptimiserParams(P) ==
    {"model"} \cup (IF ~IsNone(P.mixer) THEN {"mixer"} ELSE {})

\* line 357: the loss object built over the policy's networks
LossObj(P) ==
    [model |-> P.model, target_model |-> P.target_model, mixer |-> P.mixer,
     target_mixer |-> P.target_mixer, n_agents |-> P.config.n_agents,
     double_q |-> P.config.double_q, gamma |-> P.config.gamma]

\* _cpu_dict, lines 618-620: every tensor as a numpy array
CpuDict(sd) == [k \in DOMAIN sd |-> [ndarray |-> sd[k]]]
\* _device_dict, lines 612-616: every array as a tensor
DeviceDict(d) == [k \in DOMAIN d |-> d[k].ndarray]

NoneBlob == [given |-> FALSE, d |-> <<>>]
Blob(d) == [given |-> TRUE, d |-> d]
\* a mixer's parameters as a state_dict
MixerSd(m) == IF m.kind = "qmix" THEN QMixSd(m.sd) ELSE EmptySd

\* get_weights, lines 538-546
GetWeights(P) ==
    [model |-> CpuDict(StateDict(P.model)),
     target_model |-> CpuDict(StateDict(P.target_model)),
     mixer |-> IF ~IsNone(P.mixer) THEN Blob(CpuDict(MixerSd(P.mixer))) ELSE NoneBlob,
     target_mixer |-> IF ~IsNone(P.mixer)
                      THEN Blob(CpuDict(MixerSd(P.target_mixer))) ELSE NoneBlob]

\* what set_weights raises: with weights["mixer"] given, self.mixer = None has
\* no load_state_dict (line 554), and a state_dict of other names is refused
SetWeightsRaises(P, w) ==
    IF ~w.mixer.given THEN "none"
    ELSE IF IsNone(P.mixer) THEN "AttributeError"
    ELSE IF ~KeysMatch(MixerSd(P.mixer), w.mixer.d) THEN "RuntimeError"
    ELSE "none"

\* a mixer with the parameters of the state_dict sd loaded
LoadMixer(m, sd) == IF m.kind = "qmix" THEN [m EXCEPT !.sd = sd.w] ELSE m

\* lines 549-556 with the target estimator loaded from weights["model"]
SetWeightsTargetFromModel(P, w) ==
    LET loaded == [P EXCEPT
                      !.model = LoadStateDict(@, DeviceDict(w.model)),
                      !.target_model = LoadStateDict(@, DeviceDict(w.model))]
    IN  IF w.mixer.given /\ SetWeightsRaises(P, w) = "none"
        THEN [loaded EXCEPT
                 !.mixer = LoadMixer(@, DeviceDict(w.mixer.d)),
                 !.target_mixer = LoadMixer(@, DeviceDict(w.target_mixer.d))]
        ELSE loaded
\* set_weights, lines 549-556: the two estimators are loaded first, the
\* mixers only when weights["mixer"] is given
SetWeightsOp(P, w) ==
    LET loaded == [P EXCEPT
                      !.model = LoadStateDict(@, DeviceDict(w.model)),
                      !.target_model = LoadStateDict(@, DeviceDict(w.target_model))]
    IN  IF w.mixer.given /\ SetWeightsRaises(P, w) = "none"
        THEN [loaded EXCEPT
                 !.mixer = LoadMixer(@, DeviceDict(w.mixer.d)),
                 !.target_mixer = LoadMixer(@, DeviceDict(w.target_mixer.d))]
        ELSE loaded

\* get_state, lines 559-562: the weights dict with the key cur_epsilon added
GetState(P) ==
    LET w == GetWeights(P)
    IN  [model |-> w.model, target_model |-> w.target_model, mixer |-> w.mixer,
         target_mixer |-> w.target_mixer, cur_epsilon |-> P.cur_epsilon]

\* set_state, lines 565-567: set_epsilon is not reached when set_weights raises
SetStateOp(P, st) ==
    IF SetWeightsRaises(P, st) = "none"
    THEN SetEpsilonOp(SetWeightsOp(P, st), st.cur_epsilon)
    ELSE SetWeightsOp(P, st)

----------------------------------------------------------------------------
(* Inputs: configurations and sample batches *)

Config(mk, opt, dq, rs, n, am, gs, msl) ==
    [mixer |-> mk, optimizer |-> opt, double_q |-> dq, gamma |-> Gamma,
     reward_standardize |-> rs, n_agents |-> n, has_action_mask |-> am,
     has_env_global_state |-> gs, max_seq_len |-> msl]

MaskPatterns == {"all", "first", "last", "none0"}
\* an action mask of the group: every action valid, only action 0, only the
\* last action, or no action of agent 0
MaskOf(mp, n) ==
    [a \in Agents(n) |-> [k \in Actions |->
        CASE mp = "all" -> 1
          [] mp = "first" -> IF k = 0 THEN 1 ELSE 0
          [] mp = "last" -> IF k = n_actions - 1 THEN 1 ELSE 0
          [] OTHER -> IF a = 0 THEN 0 ELSE 1]]

\* a timestep of run e: group reward r to every agent, agent a's action
\* (p + a) mod n_actions, done flag d, observation o and next observation no
\* of every agent (also the global states), next action mask of pattern mp
MkStep(n, e, r, p, d, o, no, mp) ==
    Step(e, [a \in Agents(n) |-> r], [a \in Agents(n) |-> (p + a) % n_actions], d,
         [a \in Agents(n) |-> o], [a \in Agents(n) |-> no],
         MaskOf("all", n), MaskOf(mp, n), o, no)

PlainStep(n, e) == MkStep(n, e, 1, 0, 0, 0, 1, "all")

\* the run ids of N consecutive timesteps: each timestep continues the run
\* of the one before it or starts the next run
RunIds(N) ==
    {e \in [1 .. N -> 1 .. N] :
        /\ e[1] = 1
        /\ \A i \in 1 .. (N - 1) : e[i + 1] \in {e[i], e[i] + 1}}

\* the sample batches of N timesteps, all plain but one, which is one of V
BatchesOf(n, N, V) ==
    UNION {{[i \in 1 .. N |->
                IF i = f THEN [v EXCEPT !.eps_id = e[i]] ELSE PlainStep(n, e[i])] :
            f \in 1 .. N, v \in V} : e \in RunIds(N)}

FocusBatches(n, V) == UNION {BatchesOf(n, N, V) : N \in 1 .. MaxSteps}

\* timesteps that differ in what the bootstrap target reads
TargetSteps(n) == {MkStep(n, 1, 1, 0, 0, 0, 1, mp) : mp \in MaskPatterns}
\* timesteps that differ in what the TD error reads
TdSteps(n) ==
    {MkStep(n, 1, r, p, d, 0, 1, "all") :
        r \in {0, 1}, p \in {0, n_actions - 1}, d \in {0, 1}}
\* the batches of the training calls of Spec: one timestep; two runs of
\* different lengths; one timestep after which agent 0 has no action
LearnBatches(n) ==
    {<<PlainStep(n, 1)>>,
     <<PlainStep(n, 1), PlainStep(n, 2), PlainStep(n, 2)>>,
     <<MkStep(n, 1, 0, 1, 1, 1, 0, "none0")>>}

AllOnes == [k \in Actions |-> 1]
Ramp == [k \in Actions |-> k % 2]

----------------------------------------------------------------------------
(* Actions *)

Is(P) ==
    /\ config = P.config /\ phase = P.phase
    /\ model = P.model /\ target_model = P.target_model
    /\ mixer = P.mixer /\ target_mixer = P.target_mixer
    /\ cur_epsilon = P.cur_epsilon /\ last_timestep = P.last_timestep

Becomes(P) ==
    /\ config' = P.config /\ phase' = P.phase
    /\ model' = P.model /\ target_model' = P.target_model
    /\ mixer' = P.mixer /\ target_mixer' = P.target_mixer
    /\ cur_epsilon' = P.cur_epsilon /\ last_timestep' = P.last_timestep

Call(op, raised, arg, out) == [op |-> op, raised |-> raised, arg |-> arg, out |-> out]
NoGrad == {}

\* The arguments of a forward call on the sample batch smp, padded with fill:
\* those learn_on_batch builds, state given iff sg, next_state given iff nsg
ForwardArgs(cfg, smp, fill, sg, nsg) ==
    LET args == LossArgs(cfg, smp, fill)
    IN  [args EXCEPT
            !.state = IF sg THEN Tensor(args.env_global_state, 1) ELSE NoTensor,
            !.next_state = IF nsg THEN Tensor(args.next_env_global_state, 1)
                           ELSE NoTensor]

\* JointQLoss.forward on the tensors learn_on_batch builds from the sample
\* batch, with the global state and the next global state given or not
CallForward(sg, nsg) ==
    /\ phase = "ready"
    /\ samples # <<>>
    /\ last' = LET in == ForwardArgs(config, samples, ZeroStep(config.n_agents),
                                     sg, nsg)
                   out == Forward(LossObj(Self), in)
               IN  Call("forward", out.raised, [state |-> sg, next_state |-> nsg], out)
    /\ UNCHANGED <<policyVars, grad, samples>>

\* line 512 left out: the buffers are kept
ZeroGradSkipped(g) == g
\* lines 512-513: zero_grad clears the buffers, backward adds this call's
\* gradients to them
ZeroGrad(g) == {}
Backward(g) == g \cup {"fresh"}
\* the buffers an earlier call left, as a later call finds them
Stale(g) == IF g = {} THEN {} ELSE {"stale"}

\* the parameter values one optimizer step can give: only the parameters of
\* self.params are stepped
StepCandidates(P) ==
    [model : IF "model" \in OptimiserParams(P) THEN ParamSet ELSE {P.model},
     target_model : IF "target_model" \in OptimiserParams(P)
                    THEN ParamSet ELSE {P.target_model},
     mixer : IF "mixer" \in OptimiserParams(P) /\ P.mixer.kind = "qmix"
             THEN MixVals ELSE {P.mixer.sd},
     target_mixer : IF "target_mixer" \in OptimiserParams(P) /\ P.mixer.kind = "qmix"
                    THEN MixVals ELSE {P.target_mixer.sd}]

\* line 516: self.optimiser.step()
OptimiserStep(P, new) ==
    [P EXCEPT !.model = new.model, !.target_model = new.target_model,
              !.mixer = [@ EXCEPT !.sd = new.mixer],
              !.target_mixer = [@ EXCEPT !.sd = new.target_mixer]]

FullTrace == <<"loss", "zero_grad", "backward", "clip_grad_norm_", "step">>

\* lines 505-516 with the optimisation ahead of the loss: the buffers are
\* cleared and the optimizer stepped whether the loss raises or not
LearnOnBatchStepFirst(smp) ==
    /\ phase = "ready"
    /\ \E out \in {Forward(LossObj(Self),
                           LossArgs(config, smp, ZeroStep(config.n_agents)))} :
          \E new \in StepCandidates(Self) :
               /\ Becomes(OptimiserStep(Self, new))
               /\ grad' = Backward(ZeroGrad(Stale(grad)))
               /\ last' = Call("learn_on_batch", out.raised,
                               SeqLens(smp, config.max_seq_len),
                               [trace |-> FullTrace, stepped |-> grad',
                                found |-> Stale(grad)])
    /\ UNCHANGED samples

\* learn_on_batch, lines 437-528, on the sample batch smp
LearnOnBatch(smp) ==
    /\ phase = "ready"
    /\ \E out \in {Forward(LossObj(Self),
                           LossArgs(config, smp, ZeroStep(config.n_agents)))} :
          IF out.raised # "none"
          THEN /\ last' = Call("learn_on_batch", out.raised,
                               SeqLens(smp, config.max_seq_len),
                               [trace |-> <<"loss">>, stepped |-> {},
                                found |-> Stale(grad)])
               /\ UNCHANGED <<policyVars, grad>>
          ELSE \E new \in StepCandidates(Self) :
               /\ Becomes(OptimiserStep(Self, new))
               /\ grad' = Backward(ZeroGrad(Stale(grad)))
               /\ last' = Call("learn_on_batch", "none",
                               SeqLens(smp, config.max_seq_len),
                               [trace |-> FullTrace, stepped |-> grad',
                                found |-> Stale(grad)])
    /\ UNCHANGED samples

\* update_target
UpdateTargetCall ==
    /\ phase = "ready"
    /\ Becomes(UpdateTarget(Self))
    /\ last' = Call("update_target", "none", <<>>, <<>>)
    /\ UNCHANGED <<grad, samples>>

EpsVals == {Scale, Scale \div 2}

\* set_epsilon
SetEpsilon(e) ==
    /\ phase = "ready"
    /\ Becomes(SetEpsilonOp(Self, e))
    /\ last' = Call("set_epsilon", "none", e, <<>>)
    /\ UNCHANGED <<grad, samples>>

\* the policies whose weights a caller may hold: this one, and one of each
\* supported mixer kind with other parameters and another epsilon
Peers(P) ==
    {P} \cup {[P EXCEPT !.model = Ramp, !.target_model = AllOnes,
                        !.mixer = Mixer(k, 1), !.target_mixer = Mixer(k, -1),
                        !.cur_epsilon = Scale \div 2] : k \in SupportedMixers}

\* get_weights
GetWeightsCall ==
    /\ phase = "ready"
    /\ last' = Call("get_weights", "none", <<>>, GetWeights(Self))
    /\ UNCHANGED <<policyVars, grad, samples>>

\* set_weights
SetWeights(w) ==
    /\ phase = "ready"
    /\ Becomes(SetWeightsOp(Self, w))
    /\ last' = Call("set_weights", SetWeightsRaises(Self, w), w, <<>>)
    /\ UNCHANGED <<grad, samples>>

\* get_state
GetStateCall ==
    /\ phase = "ready"
    /\ last' = Call("get_state", "none", <<>>, GetState(Self))
    /\ UNCHANGED <<policyVars, grad, samples>>

\* set_state
SetState(st) ==
    /\ phase = "ready"
    /\ Becomes(SetStateOp(Self, st))
    /\ last' = Call("set_state", SetWeightsRaises(Self, st), st, <<>>)
    /\ UNCHANGED <<grad, samples>>

\* the rollout adds a timestep to the sample batch: of the run of the last
\* timestep, or of a new run
AppendStep ==
    /\ phase = "ready"
    /\ Len(samples) < MaxMaskSteps
    /\ \E e \in (IF samples = <<>> THEN {1}
                 ELSE {samples[Len(samples)].eps_id, samples[Len(samples)].eps_id + 1}) :
          samples' = Append(samples, PlainStep(config.n_agents, e))
    /\ last' = Call("rollout", "none", <<>>, <<>>)
    /\ UNCHANGED <<policyVars, grad>>

\* learn_on_batch, lines 438-503: the padded batch and its validity mask
BuildBatch ==
    /\ phase = "ready"
    /\ samples # <<>>
    /\ last' = LET args == LossArgs(config, samples, ZeroStep(config.n_agents))
               IN  Call("batch", "none", args.seq_lens,
                        [B |-> Len(args.seq_lens), T |-> MaxSeq(args.seq_lens),
                         mask |-> args.mask])
    /\ UNCHANGED <<policyVars, grad, samples>>

\* _mac(model, obs, h): one step of the estimator for every agent of one
\* environment row, the Q-values [n_agents, n_actions] and the next hidden states
Mac(sd, obs, h, n) ==
    [q |-> [a \in Agents(n) |-> [k \in Actions |-> QHead(sd, Cell(h[a], obs[a]), k)]],
     h |-> [a \in Agents(n) |-> Cell(h[a], obs[a])]]

\* lines 410-412 without line 412: the Q-values left as they are
MaskedQValuesUnmasked(q_values, avail, n) == q_values
\* lines 410-412: masked_q_values[avail == 0.0] = -inf
MaskedQValues(q_values, avail, n) ==
    [a \in Agents(n) |-> [k \in Actions |->
        IF avail[a][k] = 0 THEN NegInf ELSE q_values[a][k]]]

\* EpsilonGreedy: the logits of the random action, 0 where the Q-value is
\* <= FLOAT_MIN and 1 elsewhere
RandomValidActionLogits(q) == [k \in Actions |-> IF q[k] <= NegInf THEN 0 ELSE 1]
\* torch.multinomial raises on weights that sum to 0
MultinomialRaises(masked, n) ==
    \E a \in Agents(n) : \A k \in Actions : RandomValidActionLogits(masked[a])[k] = 0

\* exploration.get_exploration_action, lines 415-418: the action vectors it
\* can return.  Without explore every agent gets its arg-max; with explore
\* every agent gets its arg-max or, with probability epsilon, an action drawn
\* among those of logit 1
ExplorationActions(masked, explore, n) ==
    {acts \in [Agents(n) -> Actions] :
        \A a \in Agents(n) :
            \/ acts[a] = ArgMax(masked[a])
            \/ explore /\ RandomValidActionLogits(masked[a])[acts[a]] = 1}

\* exploration_config, lines 72-74
FinalEpsilon == (2 * Scale) \div 100
EpsilonTimesteps == 10000
\* EpsilonGreedy's epsilon_schedule: linear from initial_epsilon to
\* final_epsilon over epsilon_timesteps, final_epsilon from then on
EpsilonSchedule(timestep) ==
    IF timestep >= EpsilonTimesteps THEN FinalEpsilon
    ELSE InitialEpsilon - ((InitialEpsilon - FinalEpsilon) * timestep) \div EpsilonTimesteps
\* the epsilon get_exploration_action draws with: the schedule's value at the
\* timestep it is given; without explore none is used and the arg-max is taken
ExplorationEpsilon(explore, timestep) ==
    IF explore THEN EpsilonSchedule(timestep) ELSE 0

Timesteps == {1}
\* a timestep at the start of the schedule, and one at its end
ScheduleTimesteps == {1, EpsilonTimesteps}
HiddenVals == {0, 1}

\* compute_actions, lines 377-424, for one environment row: obs and am the
\* agents' observations and action masks, h the recurrent state of every agent
ComputeActions(obs, am, h, explore, timestep) ==
    /\ phase = "ready"
    /\ \E r \in {[avail |-> UnpackMask(config, am),
                  out |-> Mac(model, obs, [a \in Agents(config.n_agents) |-> h],
                              config.n_agents)]} :
          LET n == config.n_agents
              masked == MaskedQValues(r.out.q, r.avail, n)
              arg == [obs |-> obs, action_mask |-> r.avail, h |-> h,
                      explore |-> explore, timestep |-> timestep]
          IN  IF explore /\ MultinomialRaises(masked, n)
              THEN last' = Call("compute_actions", "RuntimeError", arg, <<>>)
              ELSE \E actions \in ExplorationActions(masked, explore, n) :
                      last' = Call("compute_actions", "none", arg,
                                   [actions |-> actions, hiddens |-> r.out.h,
                                    epsilon |-> ExplorationEpsilon(explore, timestep)])
    /\ last_timestep' = timestep
    /\ UNCHANGED <<config, phase, model, target_model, mixer, target_mixer,
                   cur_epsilon, grad, samples>>

----------------------------------------------------------------------------
(* Specifications *)

PolicyConfigs ==
    {Config(mk, opt, TRUE, FALSE, MaxAgents, TRUE, FALSE, DefaultMaxSeqLen) :
        mk \in {"none", "qmix", "vdn", "qatten"}, opt \in {"rmsprop", "adam", "sgd"}}

\* The policy after __init__; the call record keeps the parameters the two
\* estimators were constructed with (lines 314-330)
Init ==
    /\ \E cfg \in PolicyConfigs, m0 \in ParamSet, t0 \in ParamSet,
          x0 \in MixVals, tx0 \in MixVals :
          /\ Is(PolicyInit(cfg, m0, t0, x0, tx0))
          /\ last = Call("__init__", InitRaises(cfg),
                         [model |-> m0, target_model |-> t0], <<>>)
    /\ grad = NoGrad
    /\ samples = <<>>

Next ==
    \/ \E smp \in LearnBatches(config.n_agents) : LearnOnBatch(smp)
    \/ UpdateTargetCall
    \/ \E e \in EpsVals : SetEpsilon(e)
    \/ GetWeightsCall
    \/ \E Q \in Peers(Self) : SetWeights(GetWeights(Q))
    \/ GetStateCall
    \/ \E Q \in Peers(Self) : SetState(GetState(Q))

Spec == Init /\ [][Next]_vars

\* A policy in any state training reaches, and a sample batch
LossInit(cfgs, params, V) ==
    /\ \E cfg \in cfgs, mt \in params :
          /\ Is([PolicyInit(cfg, mt[1], mt[1], 1, 1) EXCEPT
                    !.target_model = mt[2],
                    !.target_mixer = Mixer(cfg.mixer, -1)])
          /\ samples \in FocusBatches(cfg.n_agents, V[cfg.n_agents])
    /\ grad = NoGrad
    /\ last = Call("none", "none", <<>>, <<>>)

\* every mixer kind, and reward_standardize without a mixer
LossConfigs ==
    {Config(x[1], "rmsprop", TRUE, x[2], n, TRUE, FALSE, DefaultMaxSeqLen) :
        x \in (SupportedMixers \X {FALSE}) \cup {<<"none", TRUE>>},
        n \in {1, MaxAgents}}

InitLoss ==
    LossInit(LossConfigs, {<<Ramp, AllOnes>>}, [n \in 1 .. MaxAgents |-> TdSteps(n)])
NextLoss == \E sg \in BOOLEAN, nsg \in BOOLEAN : CallForward(sg, nsg)
\* JointQLoss.forward as a function of its arguments: the TD error and the loss
SpecLoss == InitLoss /\ [][NextLoss]_vars

TargetConfigs ==
    {Config("none", "rmsprop", dq, FALSE, n, TRUE, FALSE, DefaultMaxSeqLen) :
        dq \in BOOLEAN, n \in {1, MaxAgents}}
\* any online estimator with one target estimator, and the converse
TargetParams == (ParamSet \X {AllOnes}) \cup ({AllOnes} \X ParamSet)

InitTarget ==
    LossInit(TargetConfigs, TargetParams, [n \in 1 .. MaxAgents |-> TargetSteps(n)])
NextTarget == CallForward(FALSE, FALSE)
\* JointQLoss.forward as a function of its arguments: the bootstrap target
SpecTarget == InitTarget /\ [][NextTarget]_vars

SmallMaxSeqLen == 3
MaskConfigs ==
    {Config("none", "rmsprop", TRUE, FALSE, n, TRUE, FALSE, msl) :
        n \in 1 .. MaxAgents, msl \in {SmallMaxSeqLen, DefaultMaxSeqLen}}

InitMask ==
    /\ \E cfg \in MaskConfigs : Is(PolicyInit(cfg, AllOnes, AllOnes, 1, 1))
    /\ grad = NoGrad
    /\ samples = <<>>
    /\ last = Call("none", "none", <<>>, <<>>)
NextMask == AppendStep \/ BuildBatch
\* The batching of learn_on_batch as a function of the sample batch
SpecMask == InitMask /\ [][NextMask]_vars

ActConfigs ==
    {Config("none", "rmsprop", TRUE, FALSE, n, am, FALSE, DefaultMaxSeqLen) :
        n \in {1, MaxAgents}, am \in BOOLEAN}

InitAct ==
    /\ \E cfg \in ActConfigs, m \in ParamSet : Is(PolicyInit(cfg, m, m, 1, 1))
    /\ grad = NoGrad
    /\ samples = <<>>
    /\ last = Call("__init__", "none", <<>>, <<>>)
NextAct ==
    \E o \in ObsVals, mp \in MaskPatterns, h \in HiddenVals, explore \in BOOLEAN,
       timestep \in Timesteps :
        ComputeActions([a \in Agents(config.n_agents) |-> o],
                       MaskOf(mp, config.n_agents), h, explore, timestep)
\* Action selection
SpecAct == InitAct /\ [][NextAct]_vars

\* a group of one agent under every supported mixer kind
AllOpsConfigs ==
    {Config(mk, "rmsprop", TRUE, FALSE, 1, TRUE, FALSE, DefaultMaxSeqLen) :
        mk \in SupportedMixers}
\* The policy after an __init__ that returned
InitAll ==
    /\ \E cfg \in AllOpsConfigs, m0 \in ParamSet, x0 \in MixVals :
          /\ Is(PolicyInit(cfg, m0, m0, x0, x0))
          /\ last = Call("__init__", InitRaises(cfg), <<>>, <<>>)
    /\ grad = NoGrad
    /\ samples = <<>>
\* one batch learn_on_batch trains on, and one its loss rejects
AllOpsBatches(n) == {<<PlainStep(n, 1)>>, <<MkStep(n, 1, 0, 1, 1, 1, 0, "none0")>>}
NextAll ==
    \/ \E smp \in AllOpsBatches(config.n_agents) : LearnOnBatch(smp)
    \/ UpdateTargetCall
    \/ \E e \in EpsVals : SetEpsilon(e)
    \/ GetWeightsCall
    \/ \E Q \in Peers(Self) : SetWeights(GetWeights(Q))
    \/ GetStateCall
    \/ \E Q \in Peers(Self) : SetState(GetState(Q))
    \/ \E mp \in MaskPatterns, explore \in BOOLEAN, timestep \in ScheduleTimesteps :
          ComputeActions([a \in Agents(config.n_agents) |-> 1],
                         MaskOf(mp, config.n_agents), InitialState, explore, timestep)
\* Every public operation of a policy, action selection included
SpecAll == InitAll /\ [][NextAll]_vars

----------------------------------------------------------------------------
(* Properties of JointQLoss.forward (SpecTarget, SpecLoss) *)

ForwardDone == last.op = "forward"
\* the arguments and the loss object of the forward call last records
LastIn ==
    ForwardArgs(config, samples, ZeroStep(config.n_agents),
                last.arg.state, last.arg.next_state)
LastL == LossObj(Self)
Triples(in, n) == Rows(in) \X Times(in) \X Agents(n)
\* some / no next action is valid at the triple x = <<b, t, a>>
SomeValidNext(in, x) == \E k \in Actions : in.next_action_mask[x[1]][x[2]][x[3]][k] = 1
\* the bootstrap action of every triple, as forward computes it
LastBootstrap ==
    BootstrapActions(LastL, LastIn, MacOut(LastL, LastIn), TargetMacOut(LastL, LastIn))

\* C3: in forward, with double_q or without, at every (batch, time, agent)
\* with at least one valid next action the action whose target Q-value is the
\* bootstrap value is a valid one (next_action_mask = 1 at its index): the
\* masking to -inf comes before the argmax / max.
C3_BootstrapActionValid ==
    ForwardDone =>
        LET in == LastIn
            idx == LastBootstrap
        IN  \A x \in Triples(in, config.n_agents) :
                SomeValidNext(in, x) =>
                    in.next_action_mask[x[1]][x[2]][x[3]][idx[x[1]][x[2]][x[3]]] = 1

\* a forward call with double_q in which the online estimator's best next
\* action is not allowed at some triple, and the bootstrap action is another
C3_Witness ==
    /\ ForwardDone /\ config.double_q
    /\ LET in == LastIn
           idx == LastBootstrap
           mac_out == MacOut(LastL, in)
       IN  \E x \in Triples(in, config.n_agents) :
               /\ SomeValidNext(in, x)
               /\ in.next_action_mask[x[1]][x[2]][x[3]]
                     [ArgMax(mac_out[x[1]][x[2] + 1][x[3]])] = 0
               /\ idx[x[1]][x[2]][x[3]] # ArgMax(mac_out[x[1]][x[2] + 1][x[3]])

\* C4 as stated: forward raises whenever every next action is masked at some
\* (batch, time, agent) triple, padded triples included.
C4_AssertsOnAnyMaskedTriple ==
    ForwardDone =>
        LET in == LastIn
        IN  (\E x \in Triples(in, config.n_agents) : ~SomeValidNext(in, x))
                => last.raised = "AssertionError"

\* C4 amended: forward raises the assertion exactly when every next action is
\* masked at some valid (mask = 1) triple; padded triples, whose action masks
\* are all zero, do not make it fail.
C4_AssertsOnValidMaskedTriple ==
    ForwardDone =>
        LET in == LastIn
        IN  (last.raised = "AssertionError") <=>
                \E x \in Triples(in, config.n_agents) :
                    in.mask[x[1]][x[2]][x[3]] = 1 /\ ~SomeValidNext(in, x)

\* a forward call that raised on a valid triple without a valid next action
C4_Witness ==
    /\ ForwardDone /\ last.raised = "AssertionError"
    /\ LET in == LastIn
       IN  \E x \in Triples(in, config.n_agents) :
               in.mask[x[1]][x[2]][x[3]] = 1 /\ ~SomeValidNext(in, x)

\* C9: the TD target at every entry is reward + discount * (1 - terminated)
\* * target value, the TD error is selected value - target (0 where padded),
\* and the loss is the sum of the squared errors over the number of valid
\* entries; with one agent, one timestep, reward 1, discount 0.9, terminated
\* 0, target Q 2 and no mixer the target is 2.8 and the loss (selected - 2.8)^2.
C9_TdTargetAndError ==
    (ForwardDone /\ last.raised = "none") =>
        LET in == LastIn
            L == LastL
            out == last.out
            d == MixedDim(L)
            tv == MixedTarget(L, in,
                      TargetMaxQvals(L, in, TargetMacOut(L, in), LastBootstrap))
        IN  /\ \A x \in Triples(in, L.n_agents) :
                  LET b == x[1]
                      t == x[2]
                      a == x[3]
                  IN  /\ out.targets[b][t][a] =
                            in.rewards[b][t][a]
                            + (Gamma * (1 - in.terminated[b][t][a])
                                 * tv[b][t][Bc(a, d)]) \div Scale
                      /\ out.masked_td_error[b][t][a] =
                            IF in.mask[b][t][a] = 1
                            THEN out.chosen_action_qvals[b][t][Bc(a, d)]
                                    - out.targets[b][t][a]
                            ELSE 0
            /\ (/\ L.n_agents = 1 /\ BatchB(in) = 1 /\ BatchT(in) = 1
                /\ IsNone(L.mixer)
                /\ in.rewards[0][0][0] = Fx(1) /\ in.terminated[0][0][0] = 0
                /\ tv[0][0][0] = Fx(2))
                  => /\ out.targets[0][0][0] = 280
                     /\ out.loss = ((out.chosen_action_qvals[0][0][0] - 280)
                                    * (out.chosen_action_qvals[0][0][0] - 280))
                                   \div Scale

\* the example: one agent, one timestep, reward 1, not terminated, target Q 2,
\* no mixer
C9_Witness ==
    /\ ForwardDone /\ last.raised = "none" /\ ~last.out.nan
    /\ config.n_agents = 1 /\ Len(samples) = 1 /\ IsNone(mixer)
    /\ LastIn.rewards[0][0][0] = Fx(1) /\ LastIn.terminated[0][0][0] = 0
    /\ last.out.targets[0][0][0] = 280
    /\ last.out.loss = 784

\* C10: forward raises ValueError, before any Q-value is computed, when
\* exactly one of state and next_state is given, and does not when both or
\* neither are given.
C10_StateMismatchRejected ==
    ForwardDone =>
        IF last.arg.state # last.arg.next_state
        THEN last.raised = "ValueError" /\ ~last.out.unrolled
        ELSE last.raised # "ValueError" /\ last.out.unrolled

\* a call with state and without next_state was rejected
C10_Witness ==
    /\ ForwardDone /\ last.arg.state /\ ~last.arg.next_state
    /\ last.raised = "ValueError"

\* the values a padded slot could hold instead of zeros
PaddingSteps(n) == {ZeroStep(n), MkStep(n, 0, 1, 1, 1, 1, 1, "all")}

\* C2: the values stored at the padded positions (mask = 0) of rewards,
\* actions, observations and action masks never change the loss: whatever
\* the padded slots hold, forward returns the loss it returns for the batch
\* learn_on_batch builds.
C2_PaddingNeverChangesLoss ==
    (ForwardDone /\ last.raised = "none") =>
        \A fill \in PaddingSteps(config.n_agents) :
            LET out == Forward(LastL,
                               ForwardArgs(config, samples, fill,
                                           last.arg.state, last.arg.next_state))
            IN  out.raised = "none" /\ out.loss = last.out.loss

----------------------------------------------------------------------------
(* Properties of the batching (SpecMask) *)

\* the number of timesteps of run e in the sample batch
RunLength(e) == Cardinality({i \in 1 .. Len(samples) : samples[i].eps_id = e})

\* C1: for a batch of B runs with lengths seq_lens and T = max(seq_lens), the
\* validity mask handed to the loss is 1 at [b, t, a] if and only if
\* t < seq_lens[b], and 0 otherwise; runs of lengths 3 and 5 give B = 2,
\* T = 5 and the masks [1,1,1,0,0] and [1,1,1,1,1].
C1_MaskMarksValidSteps ==
    last.op = "batch" =>
        LET seq_lens == last.arg
            B == last.out.B
            T == last.out.T
            mask == last.out.mask
        IN  /\ config.max_seq_len = DefaultMaxSeqLen =>
                  /\ B = samples[Len(samples)].eps_id
                  /\ \A b \in 1 .. B : seq_lens[b] = RunLength(b)
            /\ B = Len(seq_lens)
            /\ \A b \in 1 .. B : seq_lens[b] <= T
            /\ \E b \in 1 .. B : seq_lens[b] = T
            /\ DOMAIN mask = 0 .. (B - 1)
            /\ \A b \in 0 .. (B - 1) :
                  /\ DOMAIN mask[b] = 0 .. (T - 1)
                  /\ \A t \in 0 .. (T - 1), a \in Agents(config.n_agents) :
                        /\ mask[b][t][a] \in {0, 1}
                        /\ mask[b][t][a] = 1 <=> t < seq_lens[b + 1]
            /\ seq_lens = <<3, 5>> =>
                  /\ B = 2 /\ T = 5
                  /\ \A a \in Agents(config.n_agents) :
                        /\ [t \in 0 .. 4 |-> mask[0][t][a]]
                              = [t \in 0 .. 4 |-> IF t < 3 THEN 1 ELSE 0]
                        /\ [t \in 0 .. 4 |-> mask[1][t][a]] = [t \in 0 .. 4 |-> 1]

\* the batch of a run of 3 and a run of 5 timesteps of a 2-agent group
C1_Witness ==
    /\ last.op = "batch" /\ config.n_agents = 2
    /\ config.max_seq_len = DefaultMaxSeqLen
    /\ RunLength(1) = 3 /\ RunLength(2) = 5 /\ Len(samples) = 8
    /\ last.out.B = 2 /\ last.out.T = 5
    /\ last.out.mask[0][3][0] = 0 /\ last.out.mask[1][4][1] = 1

----------------------------------------------------------------------------
(* Properties of the policy (Spec) *)

\* C5: a learn_on_batch call leaves the target estimator's and the target
\* mixer's parameters as they were, so they are identical before and after
\* any sequence of such calls without update_target in between; the online
\* parameters may change.
C5_TargetFrozenByLearn ==
    [][last'.op = "learn_on_batch" =>
          /\ target_model' = target_model
          /\ target_mixer' = target_mixer]_vars

\* after a training call that stepped the optimizer, the online estimator and
\* the online mixer differ from their targets
C5_Witness ==
    /\ last.op = "learn_on_batch" /\ last.raised = "none"
    /\ last.out.trace = FullTrace
    /\ model # target_model
    /\ mixer.kind = "qmix" /\ mixer # target_mixer

\* C6: right after a construction that succeeded and right after every
\* update_target call the target estimator's parameters equal the online
\* estimator's and, with a mixer, the target mixer's equal the online mixer's.
C6_TargetInSync ==
    (last.op \in {"__init__", "update_target"} /\ last.raised = "none") =>
        /\ target_model = model
        /\ ~IsNone(mixer) => target_mixer = mixer

\* an update_target call of a policy with a QMIX mixer
C6_Witness ==
    /\ last.op = "update_target" /\ mixer.kind = "qmix"
    /\ target_model = model /\ target_mixer = mixer

\* C7: in every policy state, with a mixer or without, set_weights of what
\* get_weights returns succeeds and leaves the parameters of the online
\* estimator, the target estimator, the mixer and the target mixer unchanged.
C7_WeightsRoundTrip ==
    [][(last'.op = "set_weights" /\ last'.arg = GetWeights(Self)) =>
          /\ last'.raised = "none"
          /\ model' = model /\ target_model' = target_model
          /\ mixer' = mixer /\ target_mixer' = target_mixer]_vars

\* a set_weights call has loaded weights whose targets differ from the online
\* parameters, mixers included
C7_Witness ==
    /\ last.op = "set_weights" /\ last.raised = "none"
    /\ last.arg = GetWeights(Self)
    /\ model # target_model
    /\ mixer.kind = "qmix" /\ mixer # target_mixer

----------------------------------------------------------------------------
(* Properties of the action selection (SpecAct) *)

\* the unmasked Q-values of the compute_actions call last records
LastQValues ==
    Mac(model, last.arg.obs, [a \in Agents(config.n_agents) |-> last.arg.h],
        config.n_agents).q

\* C8: with explore and without, compute_actions returns for no agent with at
\* least one valid action an action whose action mask is 0.
C8_NoMaskedActionReturned ==
    (last.op = "compute_actions" /\ last.raised = "none") =>
        \A a \in Agents(config.n_agents) :
            (\E k \in Actions : last.arg.action_mask[a][k] = 1)
                => last.arg.action_mask[a][last.out.actions[a]] = 1

\* calls, one with explore and one without, in which the best action by the
\* unmasked Q-values is not allowed to some agent, who has a valid one and
\* is given it
ActedAroundMask(explore) ==
    /\ last.op = "compute_actions" /\ last.raised = "none"
    /\ last.arg.explore = explore
    /\ \E a \in Agents(config.n_agents) :
          /\ last.arg.action_mask[a][ArgMax(LastQValues[a])] = 0
          /\ last.arg.action_mask[a][last.out.actions[a]] = 1
C8_Witness == ActedAroundMask(TRUE)
C8_WitnessEvaluation == ActedAroundMask(FALSE)

----------------------------------------------------------------------------
(* Properties of the loss without a mixer (SpecLoss) *)

\* C11: without a mixer the joint Q-value the loss uses at each (batch, time)
\* is the sum of the per-agent Q-values, in the selected branch and in the
\* target branch: every selected value of the TD error is the sum of the
\* agents' selected Q-values, and every target is built from the sum of the
\* agents' bootstrap values.
C11_NoMixerJointIsSum ==
    (ForwardDone /\ last.raised = "none" /\ IsNone(LastL.mixer)) =>
        LET in == LastIn
            L == LastL
            out == last.out
            q == ChosenActionQvals(L, in, MacOut(L, in))
            tq == TargetMaxQvals(L, in, TargetMacOut(L, in), LastBootstrap)
        IN  \A x \in Triples(in, L.n_agents) :
                LET b == x[1]
                    t == x[2]
                    a == x[3]
                IN  /\ out.chosen_action_qvals[b][t][a] = SumTo(q[b][t], L.n_agents)
                    /\ out.targets[b][t][a] =
                          TdTarget(L.gamma, in.rewards[b][t][a],
                                   in.terminated[b][t][a],
                                   SumTo(tq[b][t], L.n_agents))

----------------------------------------------------------------------------
(* Frame of the target parameters (SpecAll) *)

TargetChanged == target_model' # target_model \/ target_mixer' # target_mixer

\* C12 as stated: the target estimator and the target mixer are changed only
\* by update_target; learn_on_batch, compute_actions, set_weights, set_state
\* and set_epsilon never change them.
C12_TargetChangedOnlyByUpdateTarget ==
    [][TargetChanged => last'.op = "update_target"]_vars

\* C12 amended: the target estimator and the target mixer are changed only
\* by update_target and by the restoring operations set_weights and
\* set_state, which load them from the weights they are given;
\* learn_on_batch, compute_actions, set_epsilon, get_weights and get_state
\* never change them.
C12_TargetChangedOnlyBySyncOrRestore ==
    [][TargetChanged => last'.op \in {"update_target", "set_weights", "set_state"}]_vars

\* set_weights has loaded a target estimator that differs from the online one
C12_Witness ==
    /\ last.op = "set_weights" /\ last.raised = "none"
    /\ model = Ramp /\ target_model = AllOnes

----------------------------------------------------------------------------
(* Construction (Spec) *)

\* C13: constructing the policy with a mixer kind other than none, "qmix" or
\* "vdn" raises before any computation: no policy object is produced, and
\* the failure comes before the models are synchronized, so the target
\* estimator still holds the parameters it was constructed with.
C13_UnsupportedMixerRejectedFirst ==
    (last.op = "__init__" /\ config.mixer \notin SupportedMixers) =>
        /\ phase = "failed" /\ last.raised # "none"
        /\ target_model = last.arg.target_model

----------------------------------------------------------------------------
(* The state snapshot and the exploration (SpecAll) *)

\* C14: set_state of a snapshot restores the snapshot's current epsilon
\* together with the four weight components, and the restored epsilon is the
\* one action selection uses afterwards: the compute_actions call that
\* follows a set_state explores with the epsilon of the snapshot.
C14_RestoredEpsilonDrivesSelection ==
    [][(/\ last.op = "set_state" /\ last.raised = "none"
        /\ last'.op = "compute_actions" /\ last'.raised = "none"
        /\ last'.arg.explore)
          => /\ cur_epsilon = last.arg.cur_epsilon
             /\ model = DeviceDict(last.arg.model)
             /\ target_model = DeviceDict(last.arg.target_model)
             /\ last'.out.epsilon = last.arg.cur_epsilon]_vars

----------------------------------------------------------------------------
(* The training call (Spec) *)

C16_FailedLearnLeavesPolicy ==
    [][(last'.op = "learn_on_batch" /\ last'.raised # "none") =>
          /\ model' = model /\ mixer' = mixer
          /\ target_model' = target_model /\ target_mixer' = target_mixer
          /\ cur_epsilon' = cur_epsilon
          /\ grad' = grad
          /\ last'.out.trace = <<"loss">>]_vars

\* a training call that raised the no-valid-action assertion on a policy an
\* earlier call had trained
C16_Witness ==
    /\ last.op = "learn_on_batch" /\ last.raised = "AssertionError"
    /\ last.out.found = {"stale"}
    /\ model # target_model

====
